---- MODULE Spec2Model ----
(***************************************************************************)
(* Model of src/app.py: a Streamlit script that keeps hazard reports in    *)
(* the flat file hazards.csv.  Every script run loads the table through    *)
(* the cached load_data(), handles the sidebar form (validate, append,     *)
(* rewrite the whole file, clear the cache, rerun) and renders the KPIs    *)
(* and charts from the in-memory table.                                    *)
(*                                                                         *)
(* Values.  Latitudes and longitudes are floats in the code; the model     *)
(* uses whole degrees.  pd.Timestamp.now() is the integer clock `now`.     *)
(* A text value held in a DataFrame is tagged, because pandas has a value  *)
(* that is not text (NaN): Str(s) is the text s, NaN the missing value.    *)
(* A cell of the file is always plain text.                                *)
(***************************************************************************)
EXTENDS Integers, Sequences, FiniteSets, TLC

\* ------------------------------------------------------------- bounds
\* A submit is modelled only while the in-memory table has fewer rows.
MaxRows == 2
\* Accepted submits in one behaviour (two sessions can lose updates and so
\* submit more often than the table has rows).
MaxSubmits == 2
\* Value of the clock when the process starts; rows that were already in a
\* pre-existing file carry earlier timestamps.
StartTime == 1

\* ------------------------------------------------------------- values
Sessions == {1, 2}

Str(s) == [t |-> "str", v |-> s]
NaN == [t |-> "nan", v |-> ""]

\* The column list of the empty DataFrame and the keys of new_report.
Columns == <<"lat", "lon", "hazard_type", "severity", "status", "reported_by", "timestamp">>

\* Columns that hold numbers in memory (floats) or, after pd.to_datetime,
\* timestamps; every other column holds text.
NumericColumns == {"lat", "lon"}

HazardTypes == {"Fire", "Chemical Leak", "Equipment Failure", "Structural Risk", "Other"}
Severities == {"Low", "Medium", "High", "Critical"}

\* Strings pandas.read_csv turns into NaN by default (keep_default_na=True).
NaValues ==
  {"", "#N/A", "#N/A N/A", "#NA", "-NaN", "-nan", "<NA>", "N/A", "NA", "NULL",
   "NaN", "None", "n/a", "nan", "null"}

\* Numbers that can occur in a cell: the coordinates of Payloads and of
\* SeedRows, and clock values.
Numbers ==
  {-180, -90, 13, 19, 20, 22, 28, 72, 77, 78, 80, 88, 91, 181}
    \cup (0 .. StartTime + MaxSubmits)

\* ------------------------------------------------------------- widgets
\* What the form widgets can hand to the submit handler.  number_input has
\* no min_value/max_value, so any float comes through; text_input returns
\* whatever was typed, the empty string included.
Payload(h, sv, la, lo, rb) ==
  [hazard_type |-> h, severity |-> sv, lat |-> la, lon |-> lo, reported_by |-> rb]

Payloads ==
  { Payload("Fire", "Critical", 19, 72, "Worker A"),
    Payload("Chemical Leak", "High", 20, 78, "N/A"),
    Payload("Other", "Low", 20, 78, " "),
    Payload("Equipment Failure", "Medium", 20, 78, ""),
    Payload("Structural Risk", "Medium", 0, 78, "Safety Officer"),
    Payload("Fire", "Low", 20, 0, "Safety Officer"),
    Payload("Other", "Medium", 91, 78, "Worker A"),
    Payload("Fire", "High", 20, 181, "Worker A"),
    Payload("Equipment Failure", "Critical", -90, -180, "Safety Officer") }

\* The first session's user may submit any of Payloads; a second session's
\* user, present only in the concurrent specification, one of two.
FormInput(s) ==
  IF s = 1 THEN Payloads
  ELSE { Payload("Fire", "Critical", 19, 72, "Worker A"),
         Payload("Equipment Failure", "Medium", 20, 78, "") }

\* ------------------------------------------------------------- tables
Range(s) == {s[i] : i \in 1 .. Len(s)}

IndexOf(s, x) == CHOOSE i \in 1 .. Len(s) : s[i] = x

\* Variant of EmptyFrame with two columns of the list exchanged.
EmptyFrameLonFirst ==
  [cols |-> <<"lon", "lat", "hazard_type", "severity", "status", "reported_by", "timestamp">>,
   rows |-> <<>>]

\* pd.DataFrame(columns=[...]) of load_data's except branch.
EmptyFrame == [cols |-> Columns, rows |-> <<>>]

NoFile == [exists |-> FALSE, header |-> <<>>, rows |-> <<>>]

\* ------------------------------------------------------------- CSV
\* DataFrame.to_csv: a number is written as its decimal text, text as it
\* is, NaN as the empty string (na_rep='').
FormatCell(c, v) ==
  IF c \in NumericColumns \cup {"timestamp"} THEN ToString(v)
  ELSE IF v.t = "nan" THEN "" ELSE v.v

\* dataframe.to_csv(DATA_FILE, index=False): header line, then one line per
\* row with the cells in column order.
to_csv(d) ==
  [exists |-> TRUE,
   header |-> d.cols,
   rows |-> [i \in 1 .. Len(d.rows) |->
              [j \in 1 .. Len(d.cols) |-> FormatCell(d.cols[j], d.rows[i][d.cols[j]])]]]

ParseNumber(s) == CHOOSE n \in Numbers : ToString(n) = s

\* pd.read_csv on one cell: a numeric column parses to a number, a text cell
\* that is one of NaValues becomes NaN, any other text is kept.
ParseCell(c, s) ==
  IF c \in NumericColumns THEN ParseNumber(s)
  ELSE IF s \in NaValues THEN NaN ELSE Str(s)

\* pd.read_csv(DATA_FILE): columns from the header, cells by position.
read_csv(f) ==
  [cols |-> f.header,
   rows |-> [i \in 1 .. Len(f.rows) |->
              [c \in Range(f.header) |-> ParseCell(c, f.rows[i][IndexOf(f.header, c)])]]]

\* df['timestamp'] = pd.to_datetime(df['timestamp'])
to_datetime(d) ==
  [d EXCEPT !.rows =
     [i \in 1 .. Len(d.rows) |->
        [d.rows[i] EXCEPT !["timestamp"] = ParseNumber(d.rows[i]["timestamp"].v)]]]

\* The body of load_data, without the cache.
ReadFile(f) == IF f.exists THEN to_datetime(read_csv(f)) ELSE EmptyFrame

\* ------------------------------------------------------------- form
\* if not reported_by or not lat or not lon: Python truthiness, so the
\* empty string and the number 0 count as "not filled in".
Rejected(p) == p.reported_by = "" \/ p.lat = 0 \/ p.lon = 0

\* Variant of new_report that leaves the status to a default of "Resolved".
new_reportResolved(p, t) ==
  [lat |-> p.lat,
   lon |-> p.lon,
   hazard_type |-> Str(p.hazard_type),
   severity |-> Str(p.severity),
   status |-> Str("Resolved"),
   reported_by |-> Str(p.reported_by),
   timestamp |-> t]

new_report(p, t) ==
  [lat |-> p.lat,
   lon |-> p.lon,
   hazard_type |-> Str(p.hazard_type),
   severity |-> Str(p.severity),
   status |-> Str("Active"),
   reported_by |-> Str(p.reported_by),
   timestamp |-> t]

\* pd.concat([df, new_report], ignore_index=True); new_report has the
\* columns of Columns, in that order.
concat(d, r) ==
  [cols |-> d.cols \o SelectSeq(Columns, LAMBDA c : c \notin Range(d.cols)),
   rows |-> Append(d.rows, r)]

\* ------------------------------------------------------------- KPIs
\* Series.value_counts(): one entry per value that occurs, NaN dropped.
value_counts(rows, c) ==
  [x \in {rows[i][c].v : i \in {k \in 1 .. Len(rows) : rows[k][c].t = "str"}} |->
     Len(SelectSeq(rows, LAMBDA r : r[c] = Str(x)))]

total_reports(d) == Len(d.rows)

active_incidents(d) == Len(SelectSeq(d.rows, LAMBDA r : r.status = Str("Active")))

\* Variant of high_severity that counts 'Critical' only.
high_severityCriticalOnly(d) ==
  Len(SelectSeq(d.rows, LAMBDA r : r.severity = Str("Critical")))

high_severity(d) ==
  Len(SelectSeq(d.rows, LAMBDA r : r.severity \in {Str("High"), Str("Critical")}))

Summarize(d) ==
  [total_count |-> total_reports(d),
   active_count |-> active_incidents(d),
   high_or_critical_count |-> high_severity(d),
   count_by_type |-> value_counts(d.rows, "hazard_type"),
   count_by_severity |-> value_counts(d.rows, "severity")]

\* ------------------------------------------------------------- state
VARIABLES
  file,    \* hazards.csv: NoFile, or header and text rows
  cache,   \* st.cache_data entry of load_data: <<>> or <<[table, shown]>>
  df,      \* per session: the script's module-level df (EmptyFrame between runs)
  pc,      \* per session: position of the script run
  msgs,    \* per session: messages shown by the current run
  kpi,     \* per session: <<>> or <<summary rendered by the run>>
  form,    \* per session: <<>> or <<payload submitted in the current run>>
  now      \* the clock read by pd.Timestamp.now()

vars == <<file, cache, df, pc, msgs, kpi, form, now>>

InitWith(f, active) ==
  /\ file = f
  /\ cache = <<>>
  /\ df = [s \in Sessions |-> EmptyFrame]
  /\ pc = [s \in Sessions |-> IF s \in active THEN "idle" ELSE "off"]
  /\ msgs = [s \in Sessions |-> {}]
  /\ kpi = [s \in Sessions |-> <<>>]
  /\ form = [s \in Sessions |-> <<>>]
  /\ now = StartTime

\* Cold start of a single browser session: no hazards.csv yet.
Init == InitWith(NoFile, {1})

\* ------------------------------------------------------------- actions
\* A script run starts (user interaction or st.rerun) and executes
\* df = load_data() under @st.cache_data: a hit returns the cached table and
\* replays the st.error of the call that was cached, a miss runs the body
\* and stores its result, the empty table of the FileNotFoundError branch
\* included.
load_data(s) ==
  /\ pc[s] = "idle"
  /\ LET entry == IF cache # <<>> THEN cache[1]
                  ELSE [table |-> ReadFile(file),
                        shown |-> IF file.exists THEN {} ELSE {"not_found"}]
     IN /\ df' = [df EXCEPT ![s] = entry.table]
        /\ cache' = <<entry>>
        /\ msgs' = [msgs EXCEPT ![s] = entry.shown]
  /\ pc' = [pc EXCEPT ![s] = "loaded"]
  /\ kpi' = [kpi EXCEPT ![s] = <<>>]
  /\ UNCHANGED <<file, form, now>>

\* Variant of SubmitRejected that saves the unchanged table all the same.
SubmitRejectedSaves(s, p) ==
  /\ pc[s] = "loaded"
  /\ Rejected(p)
  /\ file' = to_csv(df[s])
  /\ msgs' = [msgs EXCEPT ![s] = @ \cup {"fill_all_fields"}]
  /\ form' = [form EXCEPT ![s] = <<p>>]
  /\ pc' = [pc EXCEPT ![s] = "form_done"]
  /\ UNCHANGED <<cache, df, kpi, now>>

\* submit_button pressed with a payload the check refuses: the error is
\* shown, nothing else happens, and the script goes on to render.
SubmitRejected(s, p) ==
  /\ pc[s] = "loaded"
  /\ Rejected(p)
  /\ msgs' = [msgs EXCEPT ![s] = @ \cup {"fill_all_fields"}]
  /\ form' = [form EXCEPT ![s] = <<p>>]
  /\ pc' = [pc EXCEPT ![s] = "form_done"]
  /\ UNCHANGED <<file, cache, df, kpi, now>>

\* Variant of SubmitAccepted that reads the file again before appending,
\* as a writer holding a lock would.
SubmitAcceptedRereads(s, p) ==
  /\ pc[s] = "loaded"
  /\ ~Rejected(p)
  /\ Len(df[s].rows) < MaxRows
  /\ now < StartTime + MaxSubmits
  /\ df' = [df EXCEPT ![s] = concat(ReadFile(file), new_report(p, now))]
  /\ file' = to_csv(df'[s])
  /\ form' = [form EXCEPT ![s] = <<p>>]
  /\ pc' = [pc EXCEPT ![s] = "saved"]
  /\ UNCHANGED <<cache, msgs, kpi, now>>

\* submit_button pressed with an accepted payload: append to df and write
\* the whole table (first statement of save_data).
SubmitAccepted(s, p) ==
  /\ pc[s] = "loaded"
  /\ ~Rejected(p)
  /\ Len(df[s].rows) < MaxRows
  /\ now < StartTime + MaxSubmits
  /\ df' = [df EXCEPT ![s] = concat(df[s], new_report(p, now))]
  /\ file' = to_csv(df'[s])
  /\ form' = [form EXCEPT ![s] = <<p>>]
  /\ pc' = [pc EXCEPT ![s] = "saved"]
  /\ UNCHANGED <<cache, msgs, kpi, now>>

\* Variant of ClearAndRerun without st.cache_data.clear().
ClearAndRerunKeepsCache(s) ==
  /\ pc[s] = "saved"
  /\ msgs' = [msgs EXCEPT ![s] = @ \cup {"success"}]
  /\ now' = now + 1
  /\ df' = [df EXCEPT ![s] = EmptyFrame]
  /\ form' = [form EXCEPT ![s] = <<>>]
  /\ pc' = [pc EXCEPT ![s] = "idle"]
  /\ UNCHANGED <<file, cache, kpi>>

\* st.cache_data.clear(), the success message, time.sleep(1), st.rerun():
\* the run ends here and its df is gone; the next run starts from "idle".
ClearAndRerun(s) ==
  /\ pc[s] = "saved"
  /\ cache' = <<>>
  /\ msgs' = [msgs EXCEPT ![s] = @ \cup {"success"}]
  /\ now' = now + 1
  /\ df' = [df EXCEPT ![s] = EmptyFrame]
  /\ form' = [form EXCEPT ![s] = <<>>]
  /\ pc' = [pc EXCEPT ![s] = "idle"]
  /\ UNCHANGED <<file, kpi>>

\* The rest of the script after the form (submit not pressed, or refused):
\* KPIs and charts from df.  The run ends and its df is gone.
Render(s) ==
  /\ pc[s] \in {"loaded", "form_done"}
  /\ kpi' = [kpi EXCEPT ![s] = <<Summarize(df[s])>>]
  /\ df' = [df EXCEPT ![s] = EmptyFrame]
  /\ form' = [form EXCEPT ![s] = <<>>]
  /\ pc' = [pc EXCEPT ![s] = "idle"]
  /\ UNCHANGED <<file, cache, msgs, now>>

Next ==
  \E s \in Sessions :
    \/ load_data(s)
    \/ \E p \in FormInput(s) : SubmitRejected(s, p)
    \/ \E p \in FormInput(s) : SubmitAccepted(s, p)
    \/ ClearAndRerun(s)
    \/ Render(s)

Spec == Init /\ [][Next]_vars

\* A hazards.csv written before the process started (well-formed, one row
\* with an earlier timestamp), or none.
SeedRows ==
  { <<"28", "77", "Fire", "High", "Resolved", "Worker B", "0">>,
    <<"13", "80", "Other", "Medium", "Active", "Safety Officer", "0">>,
    <<"22", "88", "Chemical Leak", "Critical", "Resolved", "Worker A", "0">> }

SeedFiles ==
  {NoFile} \cup {[exists |-> TRUE, header |-> Columns, rows |-> <<r>>] : r \in SeedRows}

InitSeeded == \E f \in SeedFiles : InitWith(f, {1})

SpecSeeded == InitSeeded /\ [][Next]_vars

\* Two browser sessions served by the same process: their script runs
\* interleave statement by statement, sharing the file and the cache.
InitConc == InitWith(NoFile, {1, 2})

SpecConc == InitConc /\ [][Next]_vars

\* ============================================================= properties
\* Steps of session s, recognised by the positions before and after.
RejectStep(s) == pc[s] = "loaded" /\ pc'[s] = "form_done"
AcceptStep(s) == pc[s] = "loaded" /\ pc'[s] = "saved"
RenderStep(s) == pc[s] \in {"loaded", "form_done"} /\ pc'[s] = "idle"

\* Text that is empty after trimming (the strings of Payloads that are).
Blank == {"", " "}

Submitted(s) == form[s] # <<>>

\* The cell of column c in text row r of the file.
Cell(r, c) == r[IndexOf(Columns, c)]

\* ------------------------------------------------------------- C1
\* C1: a submit that is refused shows the validation error and writes
\* nothing: the file, the cached table and the in-memory table (so the row
\* count) are the same after the step as before; and a payload whose
\* reported_by is empty is always refused.
C1_RejectedSubmitWritesNothing ==
  /\ [](\A s \in Sessions :
          (Submitted(s) /\ form[s][1].reported_by = "") =>
             (pc[s] = "form_done" /\ "fill_all_fields" \in msgs[s]))
  /\ [][\A s \in Sessions :
          RejectStep(s) =>
            /\ file' = file
            /\ cache' = cache
            /\ df' = df
            /\ total_reports(df'[s]) = total_reports(df[s])
            /\ "fill_all_fields" \in msgs'[s]]_vars

\* A submit with an empty reported_by was refused while the store held rows.
C1_Witness ==
  /\ pc[1] = "form_done"
  /\ form[1][1].reported_by = ""
  /\ "fill_all_fields" \in msgs[1]
  /\ Len(file.rows) = 2
  /\ Len(df[1].rows) = 2

\* ------------------------------------------------------------- C2
\* C2: a submit whose latitude or longitude is exactly 0, with a non-blank
\* reported_by, is accepted (never refused).
C2_ZeroCoordinateAccepted ==
  \A s \in Sessions :
    (/\ Submitted(s)
     /\ (form[s][1].lat = 0 \/ form[s][1].lon = 0)
     /\ form[s][1].reported_by \notin Blank) => pc[s] = "saved"

\* ------------------------------------------------------------- C3
\* C3: every accepted submit leaves the persisted rows as they were and adds
\* exactly one row after them, and no step lowers the row count.
C3_AppendOnly ==
  [][/\ Len(file'.rows) >= Len(file.rows)
     /\ \A s \in Sessions :
          AcceptStep(s) =>
            /\ Len(file'.rows) = Len(file.rows) + 1
            /\ SubSeq(file'.rows, 1, Len(file.rows)) = file.rows]_vars

\* ------------------------------------------------------------- C4
\* C4: with one session, the table a load returns is the contents of the
\* file, and outside save_data a cached table is the contents of the file.
C4_LoadReflectsFile ==
  /\ \A s \in Sessions : pc[s] = "loaded" => df[s] = ReadFile(file)
  /\ (\A s \in Sessions : pc[s] # "saved") =>
        (cache # <<>> => cache[1].table = ReadFile(file))

\* A load that followed two saves returned both rows.
C4_Witness ==
  /\ pc[1] = "loaded"
  /\ now = StartTime + 2
  /\ Len(df[1].rows) = 2
  /\ cache # <<>>

\* ------------------------------------------------------------- C5
\* C5: while hazards.csv is absent a load returns zero rows under the seven
\* columns in their order and leaves the file absent; the file comes into
\* existence only by an accepted submit.
C5_ColdStartLoad ==
  /\ [](\A s \in Sessions :
          (pc[s] = "loaded" /\ ~file.exists) =>
             /\ df[s].rows = <<>>
             /\ df[s].cols = <<"lat", "lon", "hazard_type", "severity", "status",
                               "reported_by", "timestamp">>)
  /\ [][(~file.exists /\ file'.exists) => \E s \in Sessions : AcceptStep(s)]_vars
  /\ [][\A s \in Sessions :
          (pc[s] = "idle" /\ pc'[s] = "loaded") => file' = file]_vars

\* A load ran with no file and the file is still absent.
C5_Witness ==
  /\ pc[1] = "loaded"
  /\ ~file.exists
  /\ "not_found" \in msgs[1]
  /\ df[1].rows = <<>>

\* ------------------------------------------------------------- C6
\* C6: a submit whose reported_by is empty or only whitespace is refused.
C6_BlankReporterRejected ==
  \A s \in Sessions :
    (Submitted(s) /\ form[s][1].reported_by \in Blank) => pc[s] = "form_done"

\* ------------------------------------------------------------- C7
\* C7: every persisted record has latitude in [-90, 90] and longitude in
\* [-180, 180].
C7_CoordinatesInRange ==
  \A i \in 1 .. Len(file.rows) :
    /\ ParseNumber(Cell(file.rows[i], "lat")) \in -90 .. 90
    /\ ParseNumber(Cell(file.rows[i], "lon")) \in -180 .. 180

\* ------------------------------------------------------------- C8
\* C8: an accepted submit writes the table its own run loaded plus its row,
\* whatever the file holds by then, and goes on to report success without
\* touching the file again.
C8_LastWriterWins ==
  /\ [][\A s \in Sessions :
          AcceptStep(s) =>
            file' = to_csv(concat(df[s], new_report(form'[s][1], now)))]_vars
  /\ [][\A s \in Sessions :
          (pc[s] = "saved" /\ pc'[s] = "idle") =>
            ("success" \in msgs'[s] /\ file' = file)]_vars

\* Both sessions reported success for their submit and the file holds one row.
C8_Witness ==
  /\ \A s \in Sessions : pc[s] = "idle" /\ "success" \in msgs[s]
  /\ now = StartTime + 2
  /\ Len(file.rows) = 1

\* ------------------------------------------------------------- C9
\* C9: the record an accepted submit creates has status Active and all
\* seven fields populated, and every persisted row has status Active.
C9_StatusActive ==
  /\ \A i \in 1 .. Len(file.rows) : Cell(file.rows[i], "status") = "Active"
  /\ \A s \in Sessions :
       pc[s] = "saved" =>
         LET r == df[s].rows[Len(df[s].rows)]
         IN /\ r.status = Str("Active")
            /\ DOMAIN r = Range(Columns)
            /\ \A c \in Range(Columns) : FormatCell(c, r[c]) # ""

\* A second record was created and persisted.
C9_Witness ==
  /\ pc[1] = "saved"
  /\ Len(file.rows) = 2
  /\ Cell(file.rows[2], "status") = "Active"

\* ------------------------------------------------------------- C10
CountOf(m, k) == IF k \in DOMAIN m THEN m[k] ELSE 0

RowsWith(d, c, x) == {i \in 1 .. Len(d.rows) : d.rows[i][c] = Str(x)}

SummaryMatches(k, d) ==
  /\ k.total_count = Len(d.rows)
  /\ k.active_count = Cardinality(RowsWith(d, "status", "Active"))
  /\ k.high_or_critical_count =
       Cardinality(RowsWith(d, "severity", "High") \cup RowsWith(d, "severity", "Critical"))
  /\ \A h \in HazardTypes :
       CountOf(k.count_by_type, h) = Cardinality(RowsWith(d, "hazard_type", h))
  /\ \A v \in Severities :
       CountOf(k.count_by_severity, v) = Cardinality(RowsWith(d, "severity", v))
  /\ Len(d.rows) = 0 =>
       /\ k.total_count = 0 /\ k.active_count = 0 /\ k.high_or_critical_count = 0
       /\ DOMAIN k.count_by_type = {} /\ DOMAIN k.count_by_severity = {}

\* The table holds one row, created by a submit of a Fire / Critical report.
OneFireCritical(d) ==
  /\ Len(d.rows) = 1
  /\ d.rows[1].timestamp >= StartTime
  /\ d.rows[1].hazard_type = Str("Fire")
  /\ d.rows[1].severity = Str("Critical")

\* C10: the summary a run renders counts the rows of its table: total,
\* Active, High or Critical, per type and per severity; all zero on an empty
\* table; and all of total, active, high-or-critical and Fire are 1 after
\* one accepted Fire / Critical submit on an empty store.
C10_SummaryCounts ==
  [][\A s \in Sessions :
       RenderStep(s) =>
         /\ kpi'[s] # <<>>
         /\ SummaryMatches(kpi'[s][1], df[s])
         /\ OneFireCritical(df[s]) =>
              /\ kpi'[s][1].total_count = 1
              /\ kpi'[s][1].active_count = 1
              /\ kpi'[s][1].high_or_critical_count = 1
              /\ CountOf(kpi'[s][1].count_by_type, "Fire") = 1]_vars

\* The summary of the Fire / Critical scenario is on the page.
C10_Witness ==
  /\ pc[1] = "idle"
  /\ now = StartTime + 1
  /\ Len(file.rows) = 1
  /\ Cell(file.rows[1], "hazard_type") = "Fire"
  /\ Cell(file.rows[1], "severity") = "Critical"
  /\ kpi[1] # <<>>
  /\ kpi[1][1].total_count = 1
  /\ kpi[1][1].active_count = 1
  /\ kpi[1][1].high_or_critical_count = 1
  /\ CountOf(kpi[1][1].count_by_type, "Fire") = 1

====
